---- MODULE Spec2Model ----
(***************************************************************************)
(* Story Scale (src/app.py): a Streamlit script that estimates story       *)
(* points for a pasted user story and reconciles the estimate with team    *)
(* votes.  The module models                                               *)
(*   - the helper functions of the script as operators, computed the way   *)
(*     the Python code computes them (strings are sequences of one-        *)
(*     character strings, real numbers are exact fractions num/den);       *)
(*   - one run of the script per user interaction (Streamlit reruns the    *)
(*     whole script on every widget event) acting on st.session_state.     *)
(* Spec   is the interactive session.                                      *)
(* SpecFn applies each helper function to inputs drawn from bounded sets.  *)
(*                                                                         *)
(* Modelling notes.                                                        *)
(*   - Every user interaction (an edit of the story, a change of the       *)
(*     velocity, a button click) triggers its own run of the script, with  *)
(*     the other widgets keeping their values; a button reads True only in *)
(*     the run its click triggered.                                        *)
(*   - st.session_state keeps objects by reference, so an assignment to a  *)
(*     key of the cached dict persists across runs.                        *)
(*   - Floats are exact fractions.  For the values in range here (ladder   *)
(*     points, velocities of at most a few hundred, means of a few votes)  *)
(*     the comparisons of the code (abs(v - x) against each other, the     *)
(*     ratio against 1 and 0.75, math.ceil) give the same result on        *)
(*     doubles as on the exact values.  round(x, n) is modelled as         *)
(*     round-half-even on the exact value; the velocities and vote counts  *)
(*     used produce no exact ties.                                         *)
(*   - The external predictor is a nondeterministic choice of a score.     *)
(***************************************************************************)
EXTENDS Integers, Sequences, FiniteSets, TLC

VARIABLES
    story,            \* value of the st.text_area widget            (app.py:245)
    team_velocity,    \* value of the st.number_input widget         (app.py:247)
    session_state,    \* st.session_state: a dict, key -> value      (app.py:236-239)
    predictor_input,  \* <<>> or <<text>>: last text handed to vectorizer/model
    ui,               \* what the last run of the script rendered
    inp,              \* SpecFn: the function call under test
    out               \* SpecFn: <<>> (not called yet) or the call's outcome

vars == <<story, team_velocity, session_state, predictor_input, ui, inp, out>>

-----------------------------------------------------------------------------
(* Generic helpers.                                                        *)

Abs(n) == IF n < 0 THEN -n ELSE n

Max2(a, b) == IF a >= b THEN a ELSE b

Min2(a, b) == IF a <= b THEN a ELSE b

\* floor and ceiling of the fraction n/d, for any d # 0
FloorDiv(n, d) == IF d > 0 THEN n \div d ELSE (-n) \div (-d)

CeilDiv(n, d) == -FloorDiv(-n, d)

\* an exact fraction standing for a Python float
Frac(n, d) == [num |-> n, den |-> d]

\* outcomes of a call: a returned value or a raised exception
Return(v) == <<"return", v>>

Raise(e) == <<"raise", e>>

Returned(o) == o[1] = "return"

\* Python's None, and a value that is not None
None == <<>>

Some(v) == <<v>>

\* d[k] = v on a dict (a function from keys to values)
dict_set(d, k, v) == [j \in DOMAIN d \cup {k} |-> IF j = k THEN v ELSE d[j]]

-----------------------------------------------------------------------------
(* Python str operations on sequences of characters.                       *)

UpperChars ==
    << "A","B","C","D","E","F","G","H","I","J","K","L","M",
       "N","O","P","Q","R","S","T","U","V","W","X","Y","Z" >>

LowerChars ==
    << "a","b","c","d","e","f","g","h","i","j","k","l","m",
       "n","o","p","q","r","s","t","u","v","w","x","y","z" >>

Digits == << "0","1","2","3","4","5","6","7","8","9" >>

\* str.lower()
str_lower(s) ==
    [i \in 1..Len(s) |->
        IF \E j \in 1..Len(UpperChars) : UpperChars[j] = s[i]
        THEN LowerChars[CHOOSE j \in 1..Len(UpperChars) : UpperChars[j] = s[i]]
        ELSE s[i]]

\* k in s   (substring containment)
str_in(k, s) ==
    \E i \in 1..(Len(s) - Len(k) + 1) : SubSeq(s, i, i + Len(k) - 1) = k

\* str.strip(): whitespace removed at both ends
RECURSIVE str_lstrip(_)
str_lstrip(s) ==
    IF s # <<>> /\ Head(s) = " " THEN str_lstrip(Tail(s)) ELSE s

RECURSIVE str_rstrip(_)
str_rstrip(s) ==
    IF s # <<>> /\ s[Len(s)] = " " THEN str_rstrip(SubSeq(s, 1, Len(s) - 1)) ELSE s

str_strip(s) == str_rstrip(str_lstrip(s))

\* str.split(sep) for a one-character separator: the list of pieces
RECURSIVE str_split(_, _)
str_split(s, sep) ==
    IF \E i \in 1..Len(s) : s[i] = sep
    THEN LET i == CHOOSE i \in 1..Len(s) :
                     s[i] = sep /\ \A j \in 1..(i - 1) : s[j] # sep
         IN  <<SubSeq(s, 1, i - 1)>> \o str_split(SubSeq(s, i + 1, Len(s)), sep)
    ELSE <<s>>

IsDigit(c) == \E j \in 1..Len(Digits) : Digits[j] = c

DigitVal(c) == (CHOOSE j \in 1..Len(Digits) : Digits[j] = c) - 1

RECURSIVE DigitsVal(_)
DigitsVal(s) ==
    IF s = <<>> THEN 0 ELSE 10 * DigitsVal(SubSeq(s, 1, Len(s) - 1)) + DigitVal(s[Len(s)])

\* int(s): surrounding whitespace ignored, optional sign, then one or more
\* digits; anything else raises ValueError
py_int(s) ==
    LET t    == str_strip(s)
        sign == IF t # <<>> /\ Head(t) \in {"+", "-"} THEN Head(t) ELSE ""
        body == IF sign = "" THEN t ELSE Tail(t)
    IN  IF body # <<>> /\ \A i \in 1..Len(body) : IsDigit(body[i])
        THEN Return(IF sign = "-" THEN -DigitsVal(body) ELSE DigitsVal(body))
        ELSE Raise("ValueError")

-----------------------------------------------------------------------------
(* Module-level tables.                                                    *)

FIB == <<1, 2, 3, 5, 8, 13, 21, 40>>

ROLE_RULES ==
    [ payment |->
        [ roles |-> <<"Backend Developer", "Frontend Developer", "QA Engineer", "Security/DevOps">>,
          reasons |-> <<"Integration with 3rd party payment APIs", "Validation & reconciliation",
                        "Security + encryption", "Callback handling">>,
          tasks |-> <<"Setup payment provider credentials", "Implement payment API endpoints",
                      "UI payment flow", "Add payment tests">> ],
      auth |->
        [ roles |-> <<"Frontend Developer", "Backend Developer", "QA Engineer">>,
          reasons |-> <<"Authentication flow", "Token handling", "Session management", "Redirects">>,
          tasks |-> <<"Create auth endpoints", "Implement login UI", "Token storage & refresh",
                      "Test auth flows">> ],
      analytics |->
        [ roles |-> <<"Backend Developer", "Data Engineer", "Frontend Developer", "QA Engineer">>,
          reasons |-> <<"Data aggregation", "Filters and exports", "Charting library",
                        "Performance optimization">>,
          tasks |-> <<"Create analytics API", "Design DB aggregates", "Implement frontend charts",
                      "Add analytics tests">> ],
      default |->
        [ roles |-> <<"Frontend Developer", "Backend Developer", "QA Engineer">>,
          reasons |-> <<"Feature implementation", "Integration points", "Testing">>,
          tasks |-> <<"Define API contract", "Implement UI", "Create tests">> ] ]

ROLE_INNER_STEPS ==
    ("Frontend Developer" :>
        <<"Design/implement UI components", "Call backend APIs and handle UX states",
          "Add client-side validation and error handling">>)
    @@ ("Backend Developer" :>
        <<"Implement API endpoints and business logic", "Ensure data persistence and data models",
          "Add input validation and error handling">>)
    @@ ("QA Engineer" :>
        <<"Write test cases for happy & edge flows", "Run cross-browser / cross-device tests",
          "Validate error handling and retries">>)
    @@ ("Data Engineer" :>
        <<"Design ETL / data pipeline", "Aggregate metrics and maintain data schemas">>)
    @@ ("Security/DevOps" :>
        <<"Ensure secure credential storage", "Add monitoring and logging",
          "Deploy secure infra and rotate secrets">>)

PaymentKeywords ==
    << <<"u","p","i">>,
       <<"p","a","y","m","e","n","t">>,
       <<"c","h","e","c","k","o","u","t">>,
       <<"c","a","r","d">>,
       <<"s","t","r","i","p","e">>,
       <<"r","a","z","o","r","p","a","y">>,
       <<"p","a","y","t","m">> >>

AuthKeywords ==
    << <<"l","o","g","i","n">>,
       <<"s","i","g","n","i","n">>,
       <<"s","i","g","n"," ","i","n">>,
       <<"o","a","u","t","h">>,
       <<"g","o","o","g","l","e">>,
       <<"a","u","t","h">>,
       <<"p","a","s","s","w","o","r","d">>,
       <<"o","t","p">>,
       <<"2","f","a">>,
       <<"t","w","o","-","f","a","c","t","o","r">> >>

AnalyticsKeywords ==
    << <<"a","n","a","l","y","t","i","c","s">>,
       <<"d","a","s","h","b","o","a","r","d">>,
       <<"f","i","l","t","e","r","s">>,
       <<"e","x","p","o","r","t">>,
       <<"r","e","p","o","r","t">>,
       <<"c","h","a","r","t">>,
       <<"m","e","t","r","i","c","s">> >>

-----------------------------------------------------------------------------
(* Helper functions of the script.                                         *)

\* any(k in s_low for k in keywords)
any_keyword_in(keywords, s_low) ==
    \E n \in 1..Len(keywords) : str_in(keywords[n], s_low)

\* keyword_category with the auth test placed before the payment test
keyword_category_auth_first(s) ==
    LET s_low == str_lower(s)
    IN  IF any_keyword_in(AuthKeywords, s_low) THEN "auth"
        ELSE IF any_keyword_in(PaymentKeywords, s_low) THEN "payment"
        ELSE IF any_keyword_in(AnalyticsKeywords, s_low) THEN "analytics"
        ELSE "default"

keyword_category(s) ==
    LET s_low == str_lower(s)
    IN  IF any_keyword_in(PaymentKeywords, s_low) THEN "payment"
        ELSE IF any_keyword_in(AuthKeywords, s_low) THEN "auth"
        ELSE IF any_keyword_in(AnalyticsKeywords, s_low) THEN "analytics"
        ELSE "default"

\* key=lambda v: abs(v - x), scaled by x.den > 0 so that it stays an integer
fib_key(v, x) == Abs(v * x.den - x.num)

\* min(FIB, key=...): a left-to-right scan that replaces the best candidate
\* only by a strictly smaller key, so the first minimum wins
RECURSIVE min_scan(_, _, _)
min_scan(best, rest, x) ==
    IF rest = <<>> THEN best
    ELSE min_scan(IF fib_key(Head(rest), x) < fib_key(best, x) THEN Head(rest) ELSE best,
                  Tail(rest), x)

\* a scan that lets a later candidate with an equal key replace the best one
RECURSIVE min_scan_last(_, _, _)
min_scan_last(best, rest, x) ==
    IF rest = <<>> THEN best
    ELSE min_scan_last(IF fib_key(Head(rest), x) <= fib_key(best, x) THEN Head(rest) ELSE best,
                       Tail(rest), x)

\* round_to_fib where the last of several nearest members wins
round_to_fib_last(x) == min_scan_last(Head(FIB), Tail(FIB), x)

round_to_fib(x) == min_scan(Head(FIB), Tail(FIB), x)

get_complexity(sp) ==
    IF sp <= 3 THEN "Low"
    ELSE IF sp <= 8 THEN "Medium"
    ELSE "High"

factual_reasons(sp, roles, category) ==
    << IF sp <= 3 THEN "Small scope"
       ELSE IF sp <= 8 THEN "Moderate scope"
       ELSE "High scope",
       <<"Involves", Len(roles), SubSeq(roles, 1, Min2(3, Len(roles)))>>,
       <<"Category identified", category>> >>

\* sprint_weeks without the max(1, weeks) floor
sprint_weeks_unfloored(sp, velocity) ==
    IF velocity = 0 THEN Raise("ZeroDivisionError")
    ELSE Return(CeilDiv(2 * sp, velocity))

\* math.ceil((sp / velocity) * 2), at least 1; sp / 0 raises
sprint_weeks(sp, velocity) ==
    IF velocity = 0 THEN Raise("ZeroDivisionError")
    ELSE Return(Max2(1, CeilDiv(2 * sp, velocity)))

\* sprint_risk with the boundaries 1 and 0.75 put in the higher class
sprint_risk_ge(sp, velocity) ==
    IF velocity = 0 THEN Raise("ZeroDivisionError")
    ELSE LET ratio_ge(n, d) ==      \* sp / velocity >= n / d
                 IF velocity > 0 THEN sp * d >= n * velocity ELSE sp * d <= n * velocity
         IN  IF ratio_ge(1, 1)
             THEN Return(<<"High Risk - Story exceeds sprint capacity", "error">>)
             ELSE IF ratio_ge(3, 4)
             THEN Return(<<"Medium Risk - Story fills >75% of sprint capacity", "warning">>)
             ELSE Return(<<"Low Risk - Story fits well within sprint", "success">>)

\* (risk_msg, risk_level); ratio = sp / velocity compared with 1 and 0.75
sprint_risk(sp, velocity) ==
    IF velocity = 0 THEN Raise("ZeroDivisionError")
    ELSE LET ratio_gt(n, d) ==      \* sp / velocity > n / d
                 IF velocity > 0 THEN sp * d > n * velocity ELSE sp * d < n * velocity
         IN  IF ratio_gt(1, 1)
             THEN Return(<<"High Risk - Story exceeds sprint capacity", "error">>)
             ELSE IF ratio_gt(3, 4)
             THEN Return(<<"Medium Risk - Story fills >75% of sprint capacity", "warning">>)
             ELSE Return(<<"Low Risk - Story fits well within sprint", "success">>)

generate_backlog(cat) ==
    IF cat = "payment" THEN
        << <<"Epic", "Online Payments Integration">>,
           <<"Feature", "Payment Gateway Setup (Razorpay/Stripe)">>,
           <<"Task", "Create backend endpoints for transactions">>,
           <<"Subtask", "Test callbacks and failure recovery">>,
           <<"Task", "Implement UI for payment confirmation">> >>
    ELSE IF cat = "auth" THEN
        << <<"Epic", "User Authentication Module">>,
           <<"Feature", "OAuth2 and Email Login">>,
           <<"Task", "Implement Google OAuth flow">>,
           <<"Subtask", "Store & refresh tokens securely">>,
           <<"Task", "Password Reset and OTP">> >>
    ELSE IF cat = "analytics" THEN
        << <<"Epic", "Analytics Dashboard">>,
           <<"Feature", "Backend Aggregation and API">>,
           <<"Task", "Create dashboard endpoints">>,
           <<"Subtask", "Add chart filters and export">> >>
    ELSE
        << <<"Epic", "Core Product Enhancement">>,
           <<"Feature", "Add new modular functionality">>,
           <<"Task", "Implement UI + API">>,
           <<"Subtask", "Write tests and documentation">> >>

\* round(n / d, digits) for d # 0, as an integer count of 10^-digits units
\* (scale = 10^digits); ties go to the even neighbour
round_half_even(n, d, scale) ==
    LET lo == FloorDiv(n * scale, d)
        twice == 2 * n * scale - 2 * lo * d       \* 2 * remainder, sign of d
        r2 == IF d > 0 THEN twice ELSE -twice
        ad == Abs(d)
    IN  IF r2 < ad THEN lo
        ELSE IF r2 > ad THEN lo + 1
        ELSE IF lo % 2 = 0 THEN lo ELSE lo + 1

\* f"Expected to complete in {duration} week(s) (velocity={team_velocity})"
sprint_suggestion(duration, velocity) ==
    <<"Expected to complete in", duration, "week(s) (velocity=", velocity, ")">>

\* raw_pred stands for float(model.predict(vectorizer.transform([text]))[0]),
\* the value the external predictor returns for text
predict_and_explain(text, velocity, raw_pred) ==
    LET rounded_sp == round_to_fib(raw_pred)
        complexity == get_complexity(rounded_sp)
        cat == keyword_category(text)
        rules == ROLE_RULES[cat]
        factual == factual_reasons(rounded_sp, rules.roles, cat)
        backlog == generate_backlog(cat)
        duration == sprint_weeks(rounded_sp, velocity)
        risk == sprint_risk(rounded_sp, velocity)
        \* round((rounded_sp / team_velocity) * 100, 1), in tenths of a percent
        capacity_used == round_half_even(100 * rounded_sp, velocity, 10)
    IN  IF ~Returned(duration) THEN duration
        ELSE IF ~Returned(risk) THEN risk
        ELSE Return(
          [ predicted_raw |-> raw_pred,
            story_points |-> rounded_sp,
            complexity |-> complexity,
            reasons |-> factual,
            roles |-> rules.roles,
            role_inner_steps |-> ROLE_INNER_STEPS,
            recommended_tasks |-> rules.tasks,
            sprint_weeks |-> duration[2],
            sprint_suggestion |-> sprint_suggestion(duration[2], velocity),
            backlog |-> backlog,
            category |-> cat,
            risk_msg |-> risk[2][1],
            risk_level |-> risk[2][2],
            capacity_used |-> Min2(capacity_used, 1000) ])

\* sum(team_votes.values()) over the dict's keys
RECURSIVE dict_sum(_)
dict_sum(d) ==
    IF DOMAIN d = {} THEN 0
    ELSE LET k == CHOOSE k \in DOMAIN d : TRUE
         IN  d[k] + dict_sum([j \in DOMAIN d \ {k} |-> d[j]])

\* the tolerance test with the boundary 2 left out
within_tolerance_strict(team_rounded, ai_sp) == Abs(team_rounded - ai_sp) < 2

\* `if abs(team_rounded - ai_sp) <= 2:`
within_tolerance(team_rounded, ai_sp) == Abs(team_rounded - ai_sp) <= 2

finalize_by_team_votes(ai_sp, team_votes) ==
    LET n == Cardinality(DOMAIN team_votes)
    IN  IF n = 0
        THEN [ ai_suggestion |-> ai_sp,
               team_avg |-> None,
               team_rounded |-> None,
               final_story_points |-> ai_sp,
               rationale |-> "No team votes provided - AI suggestion used." ]
        ELSE LET avg_vote == Frac(dict_sum(team_votes), n)
                 team_rounded == round_to_fib(avg_vote)
                 accepted == within_tolerance(team_rounded, ai_sp)
             IN  [ ai_suggestion |-> ai_sp,
                   \* round(avg_vote, 2), in hundredths
                   team_avg |-> Some(round_half_even(avg_vote.num, avg_vote.den, 100)),
                   team_rounded |-> Some(team_rounded),
                   final_story_points |-> IF accepted THEN ai_sp ELSE team_rounded,
                   rationale |-> IF accepted
                                 THEN "AI estimate accepted (team consensus within +-2)."
                                 ELSE "Scrum Master accepted team consensus (rounded)." ]

-----------------------------------------------------------------------------
(* The script body (one run per user interaction).                         *)

\* the test without the strip(): `if story:`
story_given_unstripped(text) == text # <<>>

\* `if story.strip():` of the Estimate handler
story_given(text) == str_strip(text) # <<>>

\* the vote parsing of the Finalize handler: the loop over
\* votes_raw.split(","), inside try/except.  A part without ":" is skipped;
\* a part that does not unpack into exactly two pieces, or whose value int()
\* rejects, raises, and the bare except reports the error and resets votes
RECURSIVE parse_parts(_, _)
parse_parts(parts, votes) ==
    IF parts = <<>> THEN [votes |-> votes, error |-> FALSE]
    ELSE LET part == Head(parts)
         IN  IF ~str_in(<<":">>, part) THEN parse_parts(Tail(parts), votes)
             ELSE LET kv == str_split(part, ":")
                  IN  IF Len(kv) # 2 THEN [votes |-> <<>>, error |-> TRUE]
                      ELSE LET v == py_int(str_strip(kv[2]))
                           IN  IF ~Returned(v) THEN [votes |-> <<>>, error |-> TRUE]
                               ELSE parse_parts(Tail(parts),
                                                dict_set(votes, str_strip(kv[1]), v[2]))

parse_votes(votes_raw) == parse_parts(str_split(votes_raw, ","), <<>>)

\* a dynamic update that refreshes the risk fields as well
dynamic_sprint_update_with_risk(cached, velocity) ==
    LET weeks == sprint_weeks(cached.story_points, velocity)[2]
        risk == sprint_risk(cached.story_points, velocity)[2]
    IN  [cached EXCEPT !.sprint_weeks = weeks,
                       !.sprint_suggestion = sprint_suggestion(weeks, velocity),
                       !.risk_msg = risk[1],
                       !.risk_level = risk[2]]

\* the "Dynamic Sprint update" block: writes two keys of the cached dict
dynamic_sprint_update(cached, velocity) ==
    LET weeks == sprint_weeks(cached.story_points, velocity)[2]
    IN  [cached EXCEPT !.sprint_weeks = weeks,
                       !.sprint_suggestion = sprint_suggestion(weeks, velocity)]

\* the "AI vs Team Chart" block: max(values) raises TypeError on a None
render_chart(final) ==
    IF final.team_avg = None THEN Raise("TypeError")
    ELSE Return(<<final.ai_suggestion, final.team_avg[1], final.final_story_points>>)

\* the state after the Estimate handler (app.py:249-255)
after_estimate(ss, text, velocity, button, raw_pred) ==
    IF button = "estimate" /\ story_given(text)
    THEN [k \in DOMAIN ss \cup {"story", "last_velocity"} |->
            IF k = "cache" THEN predict_and_explain(text, velocity, raw_pred)[2]
            ELSE IF k = "story" THEN text
            ELSE IF k = "last_velocity" THEN velocity
            ELSE ss[k]]
    ELSE ss

\* the state after the dynamic sprint update (app.py:257-264)
after_update(ss, velocity) ==
    IF ss.cache # <<>> /\ velocity # ss.last_velocity
    THEN [ss EXCEPT !.cache = dynamic_sprint_update(ss.cache, velocity),
                    !.last_velocity = velocity]
    ELSE ss

\* the state after the Finalize handler (app.py:313-325)
after_finalize(ss, button, votes_raw) ==
    IF ss.cache # <<>> /\ button = "finalize"
    THEN LET final == finalize_by_team_votes(ss.cache.story_points,
                                             parse_votes(votes_raw).votes)
         IN  [k \in DOMAIN ss \cup {"final"} |->
                IF k = "votes" THEN votes_raw
                ELSE IF k = "final" THEN final
                ELSE ss[k]]
    ELSE ss

\* one run of the script with the widget values text and velocity, the
\* button that was clicked (if any), the content of the votes box and the
\* score the predictor returns if it is asked
RunScript(text, velocity, button, votes_raw, raw_pred) ==
    LET s1 == after_estimate(session_state, text, velocity, button, raw_pred)
        s2 == after_update(s1, velocity)
        s3 == after_finalize(s2, button, votes_raw)
    IN  /\ story' = text
        /\ team_velocity' = velocity
        /\ session_state' = s3
        /\ predictor_input' = IF button = "estimate" /\ story_given(text)
                              THEN <<text>> ELSE predictor_input
        /\ ui' = [ button |-> button,
                   alert |-> IF button = "estimate" /\ ~story_given(text)
                             THEN "warning: Please enter a user story first."
                             ELSE IF s2.cache # <<>> /\ button = "finalize"
                                     /\ parse_votes(votes_raw).error
                             THEN "error: Invalid format! Use FE:8,BE:13"
                             ELSE "none",
                   chart |-> IF s3.cache # <<>> /\ "final" \in DOMAIN s3
                             THEN render_chart(s3.final) ELSE <<>> ]
        /\ UNCHANGED <<inp, out>>

-----------------------------------------------------------------------------
(* Inputs of the session.                                                  *)

\* story texts typed into the text area
Stories ==
    { <<>>,
      <<" ">>,
      <<"U","P","I"," ","L","o","g","i","n">>,
      <<"f","i","x">> }

\* velocities the number_input (min 5, max 200, default 20) is set to
Velocities == {5, 20, 40}

\* scores the external predictor returns: 4, 8.5 and 50
RawPreds == { Frac(4, 1), Frac(17, 2), Frac(50, 1) }

\* contents of the votes box
VoteInputs ==
    { <<>>,
      <<"F","E",":","8",",","B","E",":","9">>,
      <<"F","E",":","2","1",",","B","E",":","2","1">>,
      <<"F","E",":","8",",","B","E">>,
      <<"Q","A",":","x">> }

NoCall == [fn |-> "none"]

Init ==
    /\ story = <<>>
    /\ team_velocity = 20
    /\ session_state = [cache |-> <<>>, votes |-> <<>>]
    /\ predictor_input = <<>>
    /\ ui = [button |-> "none", alert |-> "none", chart |-> <<>>]
    /\ inp = NoCall
    /\ out = <<>>

\* the user edits the story text: a rerun with no button clicked
EditStory ==
    \E text \in Stories \ {story} :
        RunScript(text, team_velocity, "none", session_state.votes, Frac(0, 1))

\* the user changes the team velocity: a rerun with no button clicked
ChangeVelocity ==
    \E velocity \in Velocities \ {team_velocity} :
        RunScript(story, velocity, "none", session_state.votes, Frac(0, 1))

\* the user clicks "Estimate Effort"
ClickEstimate ==
    \E raw_pred \in RawPreds :
        RunScript(story, team_velocity, "estimate", session_state.votes, raw_pred)

\* the user clicks "Finalize by Scrum Master"; the button is on the page
\* only when the previous run found a cached estimation
ClickFinalize ==
    /\ session_state.cache # <<>>
    /\ \E votes_raw \in VoteInputs :
           RunScript(story, team_velocity, "finalize", votes_raw, Frac(0, 1))

Next ==
    \/ EditStory
    \/ ChangeVelocity
    \/ ClickEstimate
    \/ ClickFinalize

Spec == Init /\ [][Next]_vars

-----------------------------------------------------------------------------
(* SpecFn: each helper function applied to inputs drawn from bounded sets. *)

\* real inputs of round_to_fib: the halves between -MaxX and MaxX
MaxX == 45

\* story points range over 0..MaxPoints, velocities over -MaxVelocity..MaxVelocity
MaxPoints == 40

MaxVelocity == 60

\* AI estimates handed to finalize_by_team_votes: 0..MaxAi and around 40
MaxAi == 23

\* a text is at most MaxWords words, a votes string at most MaxSegments
\* comma-separated segments
MaxWords == 3

MaxSegments == 3

AiPoints == (0..MaxAi) \cup {38, 40, 42}

VoteKeys == { <<"F","E">>, <<"B","E">>, <<"Q","A">> }

VoteValues == {-2, 3, 8, 9, 21}

\* every dict from some of the keys to vote values
VoteDicts == UNION { [K -> VoteValues] : K \in SUBSET VoteKeys }

\* velocities handed to predict_and_explain directly
FnVelocities == {-20, -5, 0, 5, 20}

Words ==
    { <<"U","P","I">>, <<"c","a","r","d">>, <<"L","o","g","i","n">>, <<"o","t","p">>,
      <<"C","h","a","r","t">>, <<"e","x","p","o","r","t">>, <<"f","i","x">>, <<" ">>,
      <<"S","i","g","n">>, <<"i","n">> }

VoteSegments ==
    { <<"F","E",":","8">>, <<"B","E",":","1","3">>, <<"Q","A",":","5">>, <<"B","E">>,
      <<"Q","A",":","x">>, <<" ","F","E"," ",":"," ","2","1"," ">>,
      <<"F","E",":","8",":","1">>, <<"B","E",":","-","2">> }

\* the pieces of ws joined with sep between them (sep = <<>>: concatenated)
RECURSIVE str_join(_, _)
str_join(ws, sep) ==
    IF ws = <<>> THEN <<>>
    ELSE IF Len(ws) = 1 THEN ws[1]
    ELSE ws[1] \o sep \o str_join(Tail(ws), sep)

Texts == { str_join(ws, <<>>) : ws \in UNION { [1..n -> Words] : n \in 0..MaxWords } }

VoteStrings ==
    { str_join(ws, <<",">>) : ws \in UNION { [1..n -> VoteSegments] : n \in 1..MaxSegments } }

FnInit ==
    /\ story = <<>>
    /\ team_velocity = 20
    /\ session_state = [cache |-> <<>>, votes |-> <<>>]
    /\ predictor_input = <<>>
    /\ ui = [button |-> "none", alert |-> "none", chart |-> <<>>]
    /\ out = <<>>
    /\ \/ \E n \in (-2 * MaxX)..(2 * MaxX) :
              inp = [fn |-> "round_to_fib", x |-> Frac(n, 2)]
       \/ \E ai_sp \in AiPoints, team_votes \in VoteDicts :
              inp = [fn |-> "finalize_by_team_votes", ai_sp |-> ai_sp, team_votes |-> team_votes]
       \/ \E f \in {"sprint_weeks", "sprint_risk"},
             sp \in 0..MaxPoints, velocity \in (-MaxVelocity)..MaxVelocity :
              inp = [fn |-> f, sp |-> sp, velocity |-> velocity]
       \/ \E text \in Stories, velocity \in FnVelocities, raw_pred \in RawPreds :
              inp = [fn |-> "predict_and_explain", text |-> text, velocity |-> velocity,
                     raw_pred |-> raw_pred]
       \/ \E text \in Texts :
              inp = [fn |-> "keyword_category", s |-> text]
       \/ \E votes_raw \in VoteStrings :
              inp = [fn |-> "parse_votes", votes_raw |-> votes_raw]

Called(f) ==
    /\ inp.fn = f
    /\ out = <<>>
    /\ UNCHANGED <<story, team_velocity, session_state, predictor_input, ui, inp>>

CallRoundToFib == Called("round_to_fib") /\ out' = Return(round_to_fib(inp.x))

CallFinalize ==
    /\ Called("finalize_by_team_votes")
    /\ out' = Return(finalize_by_team_votes(inp.ai_sp, inp.team_votes))

CallSprintWeeks == Called("sprint_weeks") /\ out' = sprint_weeks(inp.sp, inp.velocity)

CallSprintRisk == Called("sprint_risk") /\ out' = sprint_risk(inp.sp, inp.velocity)

CallPredictAndExplain ==
    /\ Called("predict_and_explain")
    /\ out' = predict_and_explain(inp.text, inp.velocity, inp.raw_pred)

CallKeywordCategory ==
    Called("keyword_category") /\ out' = Return(keyword_category(inp.s))

CallParseVotes == Called("parse_votes") /\ out' = Return(parse_votes(inp.votes_raw))

FnNext ==
    \/ CallRoundToFib
    \/ CallFinalize
    \/ CallSprintWeeks
    \/ CallSprintRisk
    \/ CallPredictAndExplain
    \/ CallKeywordCategory
    \/ CallParseVotes

SpecFn == FnInit /\ [][FnNext]_vars

-----------------------------------------------------------------------------
(* Properties.  Those about a helper function are read under SpecFn, on    *)
(* the states where the call has returned; those about the session under   *)
(* Spec.                                                                   *)

Ladder == { FIB[i] : i \in 1..Len(FIB) }

\* m is the ladder member nearest to num/den (den > 0), the smaller one of
\* two equidistant members
Nearest(m, num, den) ==
    /\ m \in Ladder
    /\ \A m2 \in Ladder :
          \/ Abs(m * den - num) < Abs(m2 * den - num)
          \/ Abs(m * den - num) = Abs(m2 * den - num) /\ m <= m2

Did(f) == inp.fn = f /\ out # <<>>

\* C1: for every real x, below 1 and above 40 included, round_to_fib(x) is
\* the ladder member minimizing |m - x|, the smaller one on a tie; so every
\* ladder member is a fixed point.
C1_NearestLadderMember ==
    Did("round_to_fib") =>
        /\ Returned(out)
        /\ Nearest(out[2], inp.x.num, inp.x.den)
        /\ (inp.x.den = 1 /\ inp.x.num \in Ladder => out[2] = inp.x.num)

\* C1 witness: x = 4 is equidistant from 3 and 5 and is rounded to 3.
C1_TieWitness ==
    /\ Did("round_to_fib")
    /\ inp.x.num = 4 * inp.x.den
    /\ out = Return(3)

\* C2: finalize_by_team_votes with no votes returns final = ai_points and no
\* team average or team-rounded value; with votes, team_rounded is the
\* ladder member nearest to the mean of the vote values and final is
\* ai_points when |team_rounded - ai_points| <= 2, else team_rounded.
C2_Finalize ==
    Did("finalize_by_team_votes") =>
        LET r == out[2]
            n == Cardinality(DOMAIN inp.team_votes)
            total == dict_sum(inp.team_votes)
        IN  /\ r.ai_suggestion = inp.ai_sp
            /\ n = 0 =>
                  /\ r.final_story_points = inp.ai_sp
                  /\ r.team_avg = None
                  /\ r.team_rounded = None
            /\ n > 0 =>
                  /\ r.team_avg # None
                  /\ r.team_rounded # None
                  /\ Nearest(r.team_rounded[1], total, n)
                  /\ r.final_story_points =
                        IF r.team_rounded[1] - inp.ai_sp \in -2..2
                        THEN inp.ai_sp ELSE r.team_rounded[1]

\* C2 witness: the team's rounded mean is exactly 2 away from the AI
\* estimate, and the AI estimate is kept.
C2_BoundaryWitness ==
    /\ Did("finalize_by_team_votes")
    /\ out[2].team_rounded # None
    /\ Abs(out[2].team_rounded[1] - inp.ai_sp) = 2
    /\ out[2].final_story_points = inp.ai_sp

RiskLevel == out[2][2]

\* C3 as stated: for velocity > 0, ratio = points / velocity gives low risk
\* when ratio <= 1, medium risk when 1 < ratio <= 1.5, high risk above 1.5.
C3_SpecThresholds ==
    Did("sprint_risk") /\ inp.velocity > 0 =>
        /\ Returned(out)
        /\ RiskLevel = IF inp.sp <= inp.velocity THEN "success"
                       ELSE IF 2 * inp.sp <= 3 * inp.velocity THEN "warning"
                       ELSE "error"

\* C3 amended: for velocity > 0, ratio = points / velocity gives low risk
\* when ratio <= 0.75, medium risk when 0.75 < ratio <= 1, high risk above
\* 1; the boundaries 0.75 and 1 belong to the lower class.
C3_CodeThresholds ==
    Did("sprint_risk") /\ inp.velocity > 0 =>
        /\ Returned(out)
        /\ RiskLevel = IF 4 * inp.sp <= 3 * inp.velocity THEN "success"
                       ELSE IF inp.sp <= inp.velocity THEN "warning"
                       ELSE "error"

\* C3 witness: points = 20 at velocity = 20 (ratio 1) is classified medium.
C3_BoundaryWitness ==
    /\ Did("sprint_risk")
    /\ inp.sp = 20
    /\ inp.velocity = 20
    /\ RiskLevel = "warning"

\* a comma-separated segment that has no ":" or whose text after the first
\* ":" is not an integer
BadSegment(seg) ==
    \/ \A i \in 1..Len(seg) : seg[i] # ":"
    \/ LET i == CHOOSE i \in 1..Len(seg) : seg[i] = ":" /\ \A j \in 1..(i - 1) : seg[j] # ":"
       IN  ~Returned(py_int(SubSeq(seg, i + 1, Len(seg))))

\* C4: parsing a votes string is all-or-nothing: if any comma-separated
\* segment lacks ":" or has a non-integer value, the parse fails as one
\* error and no vote is accepted; "FE:8,BE:13,QA:5" yields exactly
\* {FE:8, BE:13, QA:5}.
C4_AllOrNothing ==
    Did("parse_votes") =>
        LET segs == str_split(inp.votes_raw, ",")
        IN  /\ (inp.votes_raw # <<>> /\ \E i \in 1..Len(segs) : BadSegment(segs[i]))
                  => out[2].error /\ out[2].votes = <<>>
            /\ inp.votes_raw = <<"F","E",":","8",",","B","E",":","1","3",",","Q","A",":","5">>
                  => /\ ~out[2].error
                     /\ out[2].votes = [k \in { <<"F","E">>, <<"B","E">>, <<"Q","A">> } |->
                                           IF k = <<"F","E">> THEN 8
                                           ELSE IF k = <<"B","E">> THEN 13 ELSE 5]

\* the stored consensus result, None while there is none
StoredFinal(ss) == IF "final" \in DOMAIN ss THEN Some(ss.final) ELSE None

\* C5: an action that ends in an error (blank story on Estimate, malformed
\* votes on Finalize) leaves the cached estimation result and the stored
\* consensus result as they were.
C5_ErrorLeavesResults ==
    [][ui'.alert # "none" =>
          /\ session_state'.cache = session_state.cache
          /\ StoredFinal(session_state') = StoredFinal(session_state)]_vars

VelocityFn == {"sprint_weeks", "sprint_risk", "predict_and_explain"}

\* C6 as stated: sprint_weeks, sprint_risk and predict_and_explain return no
\* result for a velocity <= 0.
C6_NonPositiveRejected ==
    inp.fn \in VelocityFn /\ out # <<>> /\ inp.velocity <= 0 => ~Returned(out)

\* C6 amended: for velocity = 0 the three functions return no result (the
\* division raises ZeroDivisionError); a negative velocity is not rejected:
\* for points >= 0 the duration is 1 week and the risk is low.
C6_ZeroRaisesNegativeAccepted ==
    inp.fn \in VelocityFn /\ out # <<>> =>
        /\ inp.velocity = 0 => out = Raise("ZeroDivisionError")
        /\ inp.velocity < 0 =>
              /\ Returned(out)
              /\ inp.fn = "sprint_weeks" => out[2] = 1
              /\ inp.fn = "sprint_risk" => RiskLevel = "success"
              /\ inp.fn = "predict_and_explain" =>
                    out[2].sprint_weeks = 1 /\ out[2].risk_level = "success"

\* C6 witness: predict_and_explain has returned a result for a negative
\* velocity.
C6_NegativeWitness ==
    /\ Did("predict_and_explain")
    /\ inp.velocity < 0
    /\ Returned(out)
    /\ out[2].story_points = 40

\* this step's run stored a new estimation result
EstimateStored == ui'.button = "estimate" /\ ui'.alert = "none"

\* C7 as stated: once stored, every field of the estimation result keeps
\* its value until a new Estimate action replaces the whole result.
C7_NeverMutated ==
    [][session_state.cache # <<>> /\ ~EstimateStored =>
          session_state'.cache = session_state.cache]_vars

\* the duration shown for sp points at velocity v > 0: the least number of
\* weeks w >= 1 with w * v >= 2 * sp
WeeksFor(w, sp, v) ==
    /\ w >= 1
    /\ w * v >= 2 * sp
    /\ w = 1 \/ (w - 1) * v < 2 * sp

\* C7 amended: once stored, every field of the estimation result other than
\* sprint_weeks and sprint_suggestion keeps its value until a new Estimate
\* action replaces the whole result; a run that sees a team velocity other
\* than the last one rewrites sprint_weeks and sprint_suggestion in place
\* for that velocity, and a run at the same velocity changes no field.
C7_OnlySprintFieldsRewritten ==
    [][session_state.cache # <<>> /\ ~EstimateStored =>
          LET old == session_state.cache
              new == session_state'.cache
          IN  /\ DOMAIN new = DOMAIN old
              /\ \A f \in DOMAIN old \ {"sprint_weeks", "sprint_suggestion"} : new[f] = old[f]
              /\ team_velocity' = session_state.last_velocity => new = old
              /\ WeeksFor(new.sprint_weeks, old.story_points, team_velocity')
              /\ new.sprint_suggestion = sprint_suggestion(new.sprint_weeks, team_velocity')]_vars

\* C7 witness: the velocity was changed after the estimate: the stored
\* duration is the one for the new velocity and differs from the one the
\* stored capacity figure was computed with.
C7_RewrittenWitness ==
    /\ session_state.cache # <<>>
    /\ ui.button = "none"
    /\ session_state.cache.story_points = 40
    /\ session_state.cache.capacity_used = 1000
    /\ session_state.last_velocity = 5
    /\ session_state.cache.sprint_weeks = 16
    /\ session_state.cache.risk_level = "warning"

Blank(text) == \A i \in 1..Len(text) : text[i] = " "

\* C8: an Estimate action on empty or whitespace-only story text is
\* rejected and does not invoke the predictor; the predictor is only ever
\* invoked on text that is not blank.
C8_BlankNeverPredicted ==
    /\ predictor_input # <<>> => ~Blank(predictor_input[1])
    /\ ui.button = "estimate" /\ Blank(story) =>
          /\ ui.alert = "warning: Please enter a user story first."
          /\ predictor_input # <<story>>

\* C8 witness: Estimate was clicked on a whitespace-only story after an
\* earlier estimate of a non-blank story.
C8_BlankWitness ==
    /\ ui.button = "estimate"
    /\ story = <<" ">>
    /\ predictor_input # <<>>
    /\ session_state.cache # <<>>

\* some keyword of the list occurs in the lower-cased text
HasKeyword(keywords, text) ==
    \E n \in 1..Len(keywords) :
        \E i \in 0..(Len(text) - Len(keywords[n])) :
            \A j \in 1..Len(keywords[n]) : str_lower(text)[i + j] = keywords[n][j]

\* C9: keyword_category tests payment, then auth, then analytics keywords
\* on the lower-cased text by substring containment; the first match
\* decides and no match gives default.  So a text with a payment and an
\* auth keyword is payment, one with an auth and an analytics keyword but no
\* payment keyword is auth.
C9_KeywordPriority ==
    Did("keyword_category") =>
        LET pay == HasKeyword(PaymentKeywords, inp.s)
            auth == HasKeyword(AuthKeywords, inp.s)
            ana == HasKeyword(AnalyticsKeywords, inp.s)
        IN  /\ pay => out = Return("payment")
            /\ ~pay /\ auth => out = Return("auth")
            /\ ~pay /\ ~auth /\ ana => out = Return("analytics")
            /\ ~pay /\ ~auth /\ ~ana => out = Return("default")

\* C9 witness: a text in mixed case with a payment keyword after an auth
\* keyword is tagged payment.
C9_PaymentFirstWitness ==
    /\ Did("keyword_category")
    /\ inp.s = <<"L","o","g","i","n"," ","U","P","I">>
    /\ out = Return("payment")

\* C10: whenever a consensus result is stored and shown, its ai_suggestion
\* is the story_points of the cached estimation result.
C10_FinalMatchesCache ==
    ui.chart # <<>> /\ Returned(ui.chart) =>
        session_state.final.ai_suggestion = session_state.cache.story_points

=============================================================================
